---- MODULE Spec2Model ----
(***************************************************************************)
(* Model of src/stylesheet/snippets.ts: createSnippet (the Snippet          *)
(* Builder), nest (the Shorthand Nester) and getKeywords (the Keyword       *)
(* Extractor).                                                              *)
(*                                                                          *)
(* Strings are sequences of UTF-16 code units, so that the regular          *)
(* expression, String.prototype.startsWith / charCodeAt and the `<` of      *)
(* snippetsSort are computed on characters as the code computes them.       *)
(* Snippet objects live in `heap`, a function from object identities to     *)
(* records; arrays of snippets are sequences of identities, so that         *)
(* Array.prototype.includes and in-place mutation keep their meaning.       *)
(***************************************************************************)
EXTENDS Integers, Sequences, FiniteSets, TLC

VARIABLES
    pc,          \* position of the running call
    key,         \* createSnippet: argument `key`
    definition,  \* createSnippet: argument `value` (the definition string)
    created,     \* createSnippet: the returned snippet, or NoSnippet
    error,       \* createSnippet: "none", or the exception that left the call
    heap,        \* snippet objects by identity
    input,       \* nest: the array when nest() was first called, as
                 \* <<[ref: identity, was: the object's fields then]>>
    snippets,    \* nest: the array `snippets` (sorted in place, returned)
    props,       \* nest: snippets.filter(isProperty), the array iterated over
    cur,         \* nest: index in props of the for-loop's `cur`
    stack,       \* nest: the ancestor stack
    calls,       \* nest: number of nest() calls started on the list
    root,        \* getKeywords: the argument `snippet`
    kwStack,     \* getKeywords: its `stack`, the worklist
    i,           \* getKeywords: the read cursor (0-based, as in the code)
    result,      \* getKeywords: `result`
    lookup       \* getKeywords: `lookup`

vars == <<pc, key, definition, created, error, heap, input, snippets, props,
          cur, stack, calls, root, kwStack, i, result, lookup>>

buildVars == <<key, definition, created, error>>
nestVars == <<input, snippets, props, cur, stack, calls>>
kwVars == <<root, kwStack, i, result, lookup>>

(***************************************************************************)
(* Characters and strings                                                   *)
(***************************************************************************)

\* charCodeAt(...) === 45 /* - */
Hyphen == 45

\* Code units used by the inputs: a b - : space | newline A
\* the colon of reProperty and the separator of m[2].split('|')
Colon == 58
Bar == 124

\* Code units the inputs are drawn from: a b, space, line feed, A
LowerA == {97, 98}
Space == {32}
Newline == {10}
UpperA == {65}

\* [a-z-]
IsIdentChar(c) == (c >= 97 /\ c <= 122) \/ c = Hyphen

\* \s restricted to the code units of the inputs (space, tab, LF, VT, FF, CR)
IsWhite(c) == c = 32 \/ (c >= 9 /\ c <= 13)

\* [^\n\r]
IsPayloadChar(c) == c # 10 /\ c # 13

\* the strings of length lo..hi over the code units in alphabet
RECURSIVE StringsOfLen(_, _)
StringsOfLen(alphabet, n) ==
    IF n = 0 THEN {<<>>}
    ELSE {Append(s, c) : s \in StringsOfLen(alphabet, n - 1), c \in alphabet}

Strings(alphabet, lo, hi) ==
    UNION {StringsOfLen(alphabet, n) : n \in lo..hi}

Drop(s, n) == SubSeq(s, n + 1, Len(s))
Take(s, n) == SubSeq(s, 1, n)

\* length of the longest prefix of s, from place n on, within a character class
InClass(class, c) ==
    CASE class = "ident" -> IsIdentChar(c)
      [] class = "white" -> IsWhite(c)
      [] class = "nonwhite" -> ~IsWhite(c)

RECURSIVE PrefixLen(_, _, _)
PrefixLen(class, s, n) ==
    IF n < Len(s) /\ InClass(class, s[n + 1]) THEN PrefixLen(class, s, n + 1) ELSE n

\* String.prototype.startsWith
StartsWith(s, p) == Len(p) <= Len(s) /\ Take(s, Len(p)) = p

\* String.prototype.charCodeAt: NaN (here -1) outside the string; 0-based
CharCodeAt(s, idx) == IF idx >= 0 /\ idx < Len(s) THEN s[idx + 1] ELSE -1

\* a < b on strings: by code unit, a proper prefix sorting first
RECURSIVE StrLess(_, _)
StrLess(a, b) ==
    IF b = <<>> THEN FALSE
    ELSE IF a = <<>> THEN TRUE
    ELSE IF Head(a) # Head(b) THEN Head(a) < Head(b)
    ELSE StrLess(Tail(a), Tail(b))

\* String.prototype.trim
RECURSIVE TrimEnd(_)
TrimEnd(s) ==
    IF s # <<>> /\ IsWhite(s[Len(s)]) THEN TrimEnd(Take(s, Len(s) - 1)) ELSE s

Trim(s) == TrimEnd(Drop(s, PrefixLen("white", s, 0)))

\* String.prototype.split on one separator character: the pieces, in order
RECURSIVE Split(_, _, _)
Split(s, sep, piece) ==
    IF s = <<>> THEN <<piece>>
    ELSE IF Head(s) = sep THEN <<piece>> \o Split(Tail(s), sep, <<>>)
    ELSE Split(Tail(s), sep, Append(piece, Head(s)))

(***************************************************************************)
(* Snippet Builder: createSnippet                                           *)
(***************************************************************************)

NoSnippet == [type |-> "None"]

\* value.match(reProperty) with
\*   reProperty = /^([a-z-]+)(?:\s*:\s*([^\n\r]+))?$/
\* Group 1 is greedy and what follows it must be white space, a colon or the
\* end, none of which is in [a-z-]: it is the longest identifier prefix. The
\* first \s* is followed by a colon, so it too takes its longest run. The
\* second \s* is greedy but gives characters back to group 2, which needs at
\* least one character and no line break up to the end of the string: the
\* match with the longest white-space run is the one the engine returns.
\* hasValue is FALSE when the optional group did not take part (m[2] is
\* undefined).
NoMatch == [matched |-> FALSE, property |-> <<>>, hasValue |-> FALSE, value |-> <<>>]

reProperty(s) ==
    LET n == PrefixLen("ident", s, 0)
        rest == Drop(s, n)
        w == PrefixLen("white", rest, 0)
        tail == Drop(rest, w + 1)
        ok(k) == /\ k < Len(tail)
                 /\ \A j \in 1..k : IsWhite(tail[j])
                 /\ \A j \in (k + 1)..Len(tail) : IsPayloadChar(tail[j])
        ks == {k \in 0..Len(tail) : ok(k)}
        kmax == CHOOSE k \in ks : \A l \in ks : l <= k
    IN  IF n = 0 THEN NoMatch
        ELSE IF rest = <<>>
            THEN [matched |-> TRUE, property |-> Take(s, n),
                  hasValue |-> FALSE, value |-> <<>>]
        ELSE IF w < Len(rest) /\ rest[w + 1] = Colon /\ ks # {}
            THEN [matched |-> TRUE, property |-> Take(s, n),
                  hasValue |-> TRUE, value |-> Drop(tail, kmax)]
        ELSE NoMatch

\* The external value parser, parse(text, {value: true})[0].value, at its
\* boundary: one CSSValue per blank-separated word of the text, each holding
\* one token, a Literal when the word is an identifier. A text with no word
\* has no first parse result.
RECURSIVE Words(_)
Words(s) ==
    LET t == Drop(s, PrefixLen("white", s, 0))
        n == PrefixLen("nonwhite", t, 0)
    IN  IF t = <<>> THEN <<>> ELSE <<Take(t, n)>> \o Words(Drop(t, n))

Token(word) ==
    IF PrefixLen("ident", word, 0) = Len(word)
    THEN [type |-> "Literal", value |-> word]
    ELSE [type |-> "StringValue", value |-> word]

parse(text) ==
    LET ws == Words(text)
    IN  [ok |-> ws # <<>>,
         value |-> [j \in 1..Len(ws) |-> [value |-> <<Token(ws[j])>>]]]

\* parseValue(value) = parse(value.trim(), opt)[0].value
parseValue(value) == parse(Trim(value))

\* createSnippet(key, value): the call's outcome, an exception or a snippet
createSnippet(k, value) ==
    LET m == reProperty(value)
        parts == Split(m.value, Bar, <<>>)
        parsed == [j \in 1..Len(parts) |-> parseValue(parts[j])]
    IN  IF m.matched
        THEN IF ~m.hasValue
             \* m[2] is undefined: m[2].split throws
             THEN [error |-> "TypeError", snippet |-> NoSnippet]
             ELSE IF \E j \in 1..Len(parts) : ~parsed[j].ok
             THEN [error |-> "ParserError", snippet |-> NoSnippet]
             ELSE [error |-> "none",
                   snippet |-> [type |-> "Property", key |-> k,
                                property |-> m.property,
                                value |-> [j \in 1..Len(parts) |-> parsed[j].value],
                                dependencies |-> <<>>]]
        ELSE [error |-> "none",
              snippet |-> [type |-> "Raw", key |-> k, value |-> value]]

\* longest definition string drawn
MaxDefLen == 4

DefAlphabet == LowerA \cup {Hyphen, Colon, Bar} \cup Space \cup Newline \cup UpperA

Idle ==
    /\ key = <<>> /\ definition = <<>> /\ created = NoSnippet /\ error = "none"

NestIdle ==
    /\ input = <<>> /\ snippets = <<>> /\ props = <<>> /\ cur = 0
    /\ stack = <<>> /\ calls = 0

KwIdle ==
    /\ root = 0 /\ kwStack = <<>> /\ i = 0 /\ result = <<>> /\ lookup = {}

BuildInit ==
    /\ pc = "build"
    /\ key \in Strings(LowerA, 1, 1)
    /\ definition \in Strings(DefAlphabet, 0, MaxDefLen)
    /\ created = NoSnippet
    /\ error = "none"
    /\ heap = <<>>
    /\ NestIdle
    /\ KwIdle

CreateSnippet ==
    /\ pc = "build"
    /\ LET r == createSnippet(key, definition)
       IN  /\ created' = r.snippet
           /\ error' = r.error
    /\ pc' = "built"
    /\ UNCHANGED <<key, definition, heap>>
    /\ UNCHANGED nestVars
    /\ UNCHANGED kwVars

BuildNext == CreateSnippet

BuildSpec == BuildInit /\ [][BuildNext]_vars

(***************************************************************************)
(* Shorthand Nester: nest                                                   *)
(***************************************************************************)

\* snippetsSort with the comparison turned round
snippetsSortDescending(a, b) ==
    IF a.key = b.key THEN 0
    ELSE IF StrLess(a.key, b.key) THEN 1 ELSE -1

\* snippetsSort(a, b)
snippetsSort(a, b) ==
    IF a.key = b.key THEN 0
    ELSE IF StrLess(a.key, b.key) THEN -1 ELSE 1

\* Array.prototype.sort(snippetsSort) on an array of references: the stable
\* sort the language prescribes, as an insertion sort
RECURSIVE InsertSorted(_, _, _)
InsertSorted(h, sorted, id) ==
    IF sorted = <<>> THEN <<id>>
    ELSE IF snippetsSort(h[sorted[Len(sorted)]], h[id]) <= 0 THEN Append(sorted, id)
    ELSE Append(InsertSorted(h, Take(sorted, Len(sorted) - 1), id), sorted[Len(sorted)])

RECURSIVE ArraySort(_, _)
ArraySort(h, arr) ==
    IF arr = <<>> THEN <<>>
    ELSE InsertSorted(h, ArraySort(h, Take(arr, Len(arr) - 1)), arr[Len(arr)])

\* isProperty(snippet)
isProperty(snippet) == snippet.type = "Property"

\* snippets.filter(isProperty)
RECURSIVE FilterProperty(_, _)
FilterProperty(h, arr) ==
    IF arr = <<>> THEN <<>>
    ELSE IF isProperty(h[Head(arr)])
        THEN <<Head(arr)>> \o FilterProperty(h, Tail(arr))
    ELSE FilterProperty(h, Tail(arr))

\* the test without the hyphen boundary
BelongsToAnyPrefix(curProperty, prevProperty) ==
    StartsWith(curProperty, prevProperty)

\* the test with the hyphen looked for one place early
BelongsToOffByOne(curProperty, prevProperty) ==
    /\ StartsWith(curProperty, prevProperty)
    /\ CharCodeAt(curProperty, Len(prevProperty) - 1) = Hyphen

\* cur.property.startsWith(prev.property)
\*   && cur.property.charCodeAt(prev.property.length) === 45
BelongsTo(curProperty, prevProperty) ==
    /\ StartsWith(curProperty, prevProperty)
    /\ CharCodeAt(curProperty, Len(prevProperty)) = Hyphen

\* unshift in place of push
UnshiftDependency(h, prev, c) ==
    [h EXCEPT ![prev].dependencies = <<c>> \o @]

\* prev.dependencies.push(cur)
PushDependency(h, prev, c) ==
    [h EXCEPT ![prev].dependencies = Append(@, c)]

\* the property names and alias keys the nested lists are built from:
\* a  a-  a-a  a-a-b  a-b  aa  b, and the alias key b
Names ==
    {<<97>>, <<97, 45>>, <<97, 45, 97>>, <<97, 45, 97, 45, 98>>,
     <<97, 45, 98>>, <<97, 97>>, <<98>>}

Aliases == {<<98>>}

\* what the Builder makes of the definitions "<name>:a" (a Property, under
\* the property name or under an alias as key) and "A" (a Raw)
BuiltSnippets ==
    {createSnippet(k, p \o <<Colon, 97>>).snippet : p \in Names, k \in Aliases}
    \cup {createSnippet(p, p \o <<Colon, 97>>).snippet : p \in Names}
    \cup {createSnippet(k, <<65>>).snippet : k \in Aliases}

\* longest list handed to nest()
MaxSnippets == 3

\* the arrays over n snippet objects: each object once, and, where the length
\* allows, one of them a second time (an array holds references)
InputLists(n) ==
    {[j \in 1..n |-> j]}
    \cup {Append([j \in 1..n |-> j], d) : d \in {e \in 1..n : n < MaxSnippets}}

\* nest() calls made on one list
MaxCalls == 2

NestInit ==
    /\ pc = "sort"
    /\ \E n \in 0..MaxSnippets :
          /\ heap \in [1..n -> BuiltSnippets]
          /\ snippets \in InputLists(n)
    /\ input = [j \in 1..Len(snippets) |->
                  [ref |-> snippets[j], was |-> heap[snippets[j]]]]
    /\ props = <<>>
    /\ cur = 0
    /\ stack = <<>>
    /\ calls = 1
    /\ Idle
    /\ KwIdle

\* the for loop moves to its next element, or nest() returns
ForStep(nextStack) ==
    /\ stack' = nextStack
    /\ cur' = cur + 1
    /\ pc' = IF cur < Len(props) THEN "while" ELSE "done"

\* snippets = snippets.sort(snippetsSort); stack = [];
\* for (const cur of snippets.filter(isProperty))
NestSort ==
    /\ pc = "sort"
    /\ snippets' = ArraySort(heap, snippets)
    /\ props' = FilterProperty(heap, snippets')
    /\ cur' = 1
    /\ stack' = <<>>
    /\ pc' = IF props' # <<>> THEN "while" ELSE "done"
    /\ UNCHANGED <<heap, input, calls>>
    /\ UNCHANGED buildVars
    /\ UNCHANGED kwVars

\* while (stack.length): cur belongs to the top of the stack; link, push, break
NestLink ==
    /\ pc = "while"
    /\ stack # <<>>
    /\ LET prev == stack[Len(stack)]
       IN  /\ BelongsTo(heap[props[cur]].property, heap[prev].property)
           /\ heap' = PushDependency(heap, prev, props[cur])
    /\ stack' = Append(stack, props[cur])
    /\ pc' = "if"
    /\ UNCHANGED <<input, snippets, props, cur, calls>>
    /\ UNCHANGED buildVars
    /\ UNCHANGED kwVars

\* while (stack.length): cur does not belong to the top; stack.pop()
NestPop ==
    /\ pc = "while"
    /\ stack # <<>>
    /\ ~BelongsTo(heap[props[cur]].property, heap[stack[Len(stack)]].property)
    /\ stack' = Take(stack, Len(stack) - 1)
    /\ UNCHANGED <<pc, heap, input, snippets, props, cur, calls>>
    /\ UNCHANGED buildVars
    /\ UNCHANGED kwVars

\* the while loop ends on an empty stack
NestExitWhile ==
    /\ pc = "while"
    /\ stack = <<>>
    /\ pc' = "if"
    /\ UNCHANGED <<heap, input, snippets, props, cur, stack, calls>>
    /\ UNCHANGED buildVars
    /\ UNCHANGED kwVars

\* if (!stack.length) stack.push(cur), then the next round of the for loop
NestPushRoot ==
    /\ pc = "if"
    /\ stack = <<>>
    /\ ForStep(<<props[cur]>>)
    /\ UNCHANGED <<heap, input, snippets, props, calls>>
    /\ UNCHANGED buildVars
    /\ UNCHANGED kwVars

NestSkipPush ==
    /\ pc = "if"
    /\ stack # <<>>
    /\ ForStep(stack)
    /\ UNCHANGED <<heap, input, snippets, props, calls>>
    /\ UNCHANGED buildVars
    /\ UNCHANGED kwVars

\* nest() has returned `snippets`; the caller hands the list to nest() again
NestAgain ==
    /\ pc = "done"
    /\ calls < MaxCalls
    /\ calls' = calls + 1
    /\ pc' = "sort"
    /\ UNCHANGED <<heap, input, snippets, props, cur, stack>>
    /\ UNCHANGED buildVars
    /\ UNCHANGED kwVars

NestNext ==
    \/ NestSort
    \/ NestLink
    \/ NestPop
    \/ NestExitWhile
    \/ NestPushRoot
    \/ NestSkipPush
    \/ NestAgain

NestSpec == NestInit /\ [][NestNext]_vars

(***************************************************************************)
(* Keyword Extractor: getKeywords                                           *)
(***************************************************************************)

\* Value nodes as the parser delivers them
Literal(text) == [type |-> "Literal", value |-> text]
FunctionCall(name) == [type |-> "FunctionCall", name |-> name, arguments |-> <<>>]
StringValue(text) == [type |-> "StringValue", value |-> text, quote |-> "double"]
CSSValue(tokens) == [type |-> "CSSValue", value |-> tokens]

\* keywordsFromValue without the FunctionCall branch
RECURSIVE keywordsOfLiterals(_)
keywordsOfLiterals(value) ==
    IF value = <<>> THEN <<>>
    ELSE LET toks == Head(value).value
             pick[n \in 0..Len(toks)] ==
                 IF n = 0 THEN <<>>
                 ELSE IF toks[n].type = "Literal" THEN Append(pick[n - 1], toks[n].value)
                 ELSE pick[n - 1]
         IN  pick[Len(toks)] \o keywordsOfLiterals(Tail(value))

\* keywordsFromValue(value): for (const v of value) for (const kw of v.value)
RECURSIVE keywordsFromValue(_)
keywordsFromValue(value) ==
    IF value = <<>> THEN <<>>
    ELSE LET toks == Head(value).value
             pick[n \in 0..Len(toks)] ==
                 IF n = 0 THEN <<>>
                 ELSE IF toks[n].type = "Literal" THEN Append(pick[n - 1], toks[n].value)
                 ELSE IF toks[n].type = "FunctionCall" THEN Append(pick[n - 1], toks[n].name)
                 ELSE pick[n - 1]
         IN  pick[Len(toks)] \o keywordsFromValue(Tail(value))

\* the push without the lookup test
RecordEvery(acc, index, keyword) ==
    [result |-> Append(acc.result, [index |-> index, keyword |-> keyword]),
     lookup |-> acc.lookup \cup {keyword}]

\* the push of the alternative's place counted from one
RecordOneBased(acc, index, keyword) ==
    IF keyword \in acc.lookup THEN acc
    ELSE [result |-> Append(acc.result, [index |-> index + 1, keyword |-> keyword]),
          lookup |-> acc.lookup \cup {keyword}]

\* if (!lookup.has(keyword)) { result.push({ index, keyword }); lookup.add(keyword) }
Record(acc, index, keyword) ==
    IF keyword \in acc.lookup THEN acc
    ELSE [result |-> Append(acc.result, [index |-> index, keyword |-> keyword]),
          lookup |-> acc.lookup \cup {keyword}]

\* for (const keyword of keywordsFromValue(item.value[index]))
RECURSIVE RecordAll(_, _, _)
RecordAll(acc, index, keywords) ==
    IF keywords = <<>> THEN acc
    ELSE RecordAll(Record(acc, index, Head(keywords)), index, Tail(keywords))

\* for (let index = 0; index < item.value.length; index++)
RECURSIVE ScanValues(_, _, _)
ScanValues(acc, value, index) ==
    IF index >= Len(value) THEN acc
    ELSE ScanValues(RecordAll(acc, index, keywordsFromValue(value[index + 1])),
                    value, index + 1)

\* Array.prototype.includes, by identity
Includes(arr, ref) == \E j \in 1..Len(arr) : arr[j] = ref

\* the dependencies pushed last one first
RECURSIVE PushDepsReversed(_, _)
PushDepsReversed(arr, deps) ==
    IF deps = <<>> THEN arr
    ELSE LET rest == PushDepsReversed(arr, Tail(deps))
         IN  IF Includes(rest, Head(deps)) THEN rest ELSE Append(rest, Head(deps))

\* for (const dep of item.dependencies) if (!stack.includes(dep)) stack.push(dep)
RECURSIVE PushDeps(_, _)
PushDeps(arr, deps) ==
    IF deps = <<>> THEN arr
    ELSE PushDeps(IF Includes(arr, Head(deps)) THEN arr ELSE Append(arr, Head(deps)),
                  Tail(deps))

\* most snippet objects in a dependency graph
MaxNodes == 3

\* most dependency edges in a graph
MaxEdges == 3

\* the values of the graph's nodes, by turns:
\*   x | y x          x in two alternatives
\*   y y | z() "x"    y twice in one alternative, a function name, a string
\*   z | x() z | x    z and x each in two alternatives, x first in the second
SampleValues ==
    << << <<CSSValue(<<Literal(<<120>>)>>)>>,
          <<CSSValue(<<Literal(<<121>>)>>), CSSValue(<<Literal(<<120>>)>>)>> >>,
       << <<CSSValue(<<Literal(<<121>>)>>), CSSValue(<<Literal(<<121>>)>>)>>,
          <<CSSValue(<<FunctionCall(<<122>>), StringValue(<<120>>)>>)>> >>,
       << <<CSSValue(<<Literal(<<122>>)>>)>>,
          <<CSSValue(<<FunctionCall(<<120>>)>>), CSSValue(<<Literal(<<122>>)>>)>>,
          <<CSSValue(<<Literal(<<120>>)>>)>> >> >>

\* the dependency lists of n objects with at most e edges in all, in every
\* order, with repeated and self dependencies
RECURSIVE DependencyLists(_, _)
DependencyLists(n, e) ==
    IF e = 0 THEN {[r \in 1..n |-> <<>>]}
    ELSE LET fewer == DependencyLists(n, e - 1)
         IN  fewer \cup {[g EXCEPT ![p] = Append(@, c)] :
                            g \in fewer, p \in 1..n, c \in 1..n}

PropertyNode(r, shift, deps) ==
    [type |-> "Property", key |-> <<97>>, property |-> <<97>>,
     value |-> SampleValues[((r + shift) % Len(SampleValues)) + 1],
     dependencies |-> deps]

KwInit ==
    /\ pc = "keywords"
    /\ \/ \E n \in 1..MaxNodes : \E g \in DependencyLists(n, MaxEdges) :
          \E shift \in 1..Len(SampleValues) :
             heap = [r \in 1..n |-> PropertyNode(r, shift, g[r])]
       \/ heap \in [{1} -> {b \in BuiltSnippets : b.type = "Raw"}]
    /\ root = 1
    /\ kwStack = <<>>
    /\ i = 0
    /\ result = <<>>
    /\ lookup = {}
    /\ Idle
    /\ NestIdle

\* stack = []; result = []; lookup = new Set(); i = 0;
\* if (snippet.type === CSSSnippetType.Property) stack.push(snippet)
KwEnter ==
    /\ pc = "keywords"
    /\ kwStack' = IF heap[root].type = "Property" THEN <<root>> ELSE <<>>
    /\ result' = <<>>
    /\ lookup' = {}
    /\ i' = 0
    /\ pc' = "scan"
    /\ UNCHANGED <<heap, root>>
    /\ UNCHANGED buildVars
    /\ UNCHANGED nestVars

\* one round of while (i < stack.length)
KwVisit ==
    /\ pc = "scan"
    /\ i < Len(kwStack)
    /\ LET item == heap[kwStack[i + 1]]
           acc == ScanValues([result |-> result, lookup |-> lookup], item.value, 0)
       IN  /\ result' = acc.result
           /\ lookup' = acc.lookup
           /\ kwStack' = PushDeps(kwStack, item.dependencies)
    /\ i' = i + 1
    /\ UNCHANGED <<pc, heap, root>>
    /\ UNCHANGED buildVars
    /\ UNCHANGED nestVars

\* the loop ends; return result
KwReturn ==
    /\ pc = "scan"
    /\ ~(i < Len(kwStack))
    /\ pc' = "returned"
    /\ UNCHANGED <<heap, root, kwStack, i, result, lookup>>
    /\ UNCHANGED buildVars
    /\ UNCHANGED nestVars

KwNext ==
    \/ KwEnter
    \/ KwVisit
    \/ KwReturn

KwSpec == KwInit /\ [][KwNext]_vars

\* the call is not suspended: it is synchronous and runs to its return
KwFairSpec == KwSpec /\ WF_vars(KwNext)

(***************************************************************************)
(* Properties of nest                                                       *)
(***************************************************************************)

Refs == DOMAIN heap

PropertyRefs == {r \in Refs : heap[r].type = "Property"}

\* longer = shorter, a hyphen, and possibly more characters
HyphenExtends(longer, shorter) ==
    /\ Len(longer) > Len(shorter)
    /\ \A j \in 1..Len(shorter) : longer[j] = shorter[j]
    /\ longer[Len(shorter) + 1] = Hyphen

\* the dependency edges <<parent, child>>
Edges == {e \in PropertyRefs \X Refs :
            \E j \in 1..Len(heap[e[1]].dependencies) : heap[e[1]].dependencies[j] = e[2]}

\* the objects reachable from the set `from` in one or more steps
RECURSIVE ReachedFrom(_)
ReachedFrom(from) ==
    LET more == from \cup {e[2] : e \in {f \in Edges : f[1] \in from}}
    IN  IF more = from THEN from ELSE ReachedFrom(more)

Descendants(r) == ReachedFrom({e[2] : e \in {f \in Edges : f[1] = r}})

Positions(arr, r) == {j \in 1..Len(arr) : arr[j] = r}

\* a stands before b: some place of a is before some place of b
Before(arr, a, b) ==
    \E j \in Positions(arr, a) : \E k \in Positions(arr, b) : j < k

Occurrences(seq, x) == Cardinality({j \in 1..Len(seq) : seq[j] = x})

InputRefs == [j \in 1..Len(input) |-> input[j].ref]

DistinctInput == \A j, k \in 1..Len(input) : input[j].ref = input[k].ref => j = k

\* C1: once nest() has returned, every Property b of the list whose property
\* is the property of a Property a of the list followed by a hyphen is
\* reachable from a along dependencies, and a stands before b in the list.
C1_ShorthandReachesLonghand ==
    pc = "done" =>
        \A a, b \in PropertyRefs :
            HyphenExtends(heap[b].property, heap[a].property) =>
                /\ b \in Descendants(a)
                /\ Before(snippets, a, b)

\* C4: the list nest() returns holds every reference of the input as often
\* as the input did, is ascending by key, and its Raw snippets have the key
\* and the value they had.
C4_NestPreservesList ==
    pc = "done" =>
        /\ Len(snippets) = Len(input)
        /\ \A r \in Refs : Occurrences(snippets, r) = Occurrences(InputRefs, r)
        /\ \A j, k \in 1..Len(snippets) :
              j < k => ~StrLess(heap[snippets[k]].key, heap[snippets[j]].key)
        /\ \A j \in 1..Len(input) :
              input[j].was.type = "Raw" => heap[input[j].ref] = input[j].was

\* nest() returned a list of several snippets, a Raw among them, that it had
\* to reorder
C4_Witness ==
    /\ pc = "done"
    /\ Len(snippets) >= 3
    /\ snippets # InputRefs
    /\ \E j \in 1..Len(snippets) : heap[snippets[j]].type = "Raw"
    /\ \E j \in 1..Len(snippets) : heap[snippets[j]].type = "Property"

\* C8: every dependency edge leads from a property to one whose name is the
\* parent's name, a hyphen, and possibly more; so names that only share a
\* prefix, equal names and unrelated names are never linked; and when
\* nest() has returned, a property with no such ancestor standing before it
\* in the list is in no dependencies list.
C8_EdgesFollowHyphenPrefix ==
    /\ \A e \in Edges :
          /\ e[2] \in PropertyRefs
          /\ HyphenExtends(heap[e[2]].property, heap[e[1]].property)
    /\ pc = "done" =>
          \A c \in PropertyRefs :
              (\A p \in PropertyRefs :
                  ~(Before(snippets, p, c)
                    /\ HyphenExtends(heap[c].property, heap[p].property)))
              => \A e \in Edges : e[2] # c

\* nest() returned with an edge made and with two properties of which one
\* name is a proper prefix of the other without the hyphen
C8_Witness ==
    /\ pc = "done"
    /\ Edges # {}
    /\ \E x, y \in PropertyRefs :
          /\ StartsWith(heap[y].property, heap[x].property)
          /\ Len(heap[y].property) > Len(heap[x].property)
          /\ ~HyphenExtends(heap[y].property, heap[x].property)
          /\ Before(snippets, x, y)

\* C9: at every step of nest() each element of the ancestor stack has the
\* name of the element below it, a hyphen, and more (so a strictly longer
\* name); and along the dependencies no snippet reaches itself.
C9_StackIsChainAndAcyclic ==
    /\ \A j \in 2..Len(stack) :
          HyphenExtends(heap[stack[j]].property, heap[stack[j - 1]].property)
    /\ \A r \in PropertyRefs : r \notin Descendants(r)

\* the stack holds a chain of three
C9_Witness ==
    /\ Len(stack) >= 3
    /\ Cardinality(Edges) >= 2

\* C10: after one nest() call on a list of distinct snippets, every snippet
\* is in at most one dependencies list, at most once, and each list is in
\* the order of the returned list.
C10_SingleNestBuildsForest ==
    (pc = "done" /\ calls = 1 /\ DistinctInput) =>
        /\ \A c \in Refs : Cardinality({e \in Edges : e[2] = c}) <= 1
        /\ \A p \in PropertyRefs :
              LET deps == heap[p].dependencies
              IN  /\ \A c \in Refs : Occurrences(deps, c) <= 1
                  /\ \A j, k \in 1..Len(deps) :
                        j < k => Before(snippets, deps[j], deps[k])

\* one call returned with a property that has two dependencies
C10_Witness ==
    /\ pc = "done"
    /\ calls = 1
    /\ DistinctInput
    /\ \E p \in PropertyRefs : Len(heap[p].dependencies) >= 2

(***************************************************************************)
(* Properties of getKeywords                                                *)
(***************************************************************************)

\* the keyword a value node carries, if it carries one
IsKeywordNode(tok) == tok.type \in {"Literal", "FunctionCall"}

KeywordOf(tok) == IF tok.type = "Literal" THEN tok.value ELSE tok.name

\* the places <<alternative (from 0), value, node>> of the keywords of object r
KeywordPlaces(r) ==
    LET value == heap[r].value
    IN  UNION {UNION {{<<a - 1, v, t>> : t \in {u \in 1..Len(value[a][v].value) :
                                                   IsKeywordNode(value[a][v].value[u])}} :
                      v \in 1..Len(value[a])} :
               a \in 1..Len(value)}

KeywordAt(r, place) == KeywordOf(heap[r].value[place[1] + 1][place[2]].value[place[3]])

NodeKeywords(r) == {KeywordAt(r, pl) : pl \in KeywordPlaces(r)}

\* the objects the traversal is to cover: the root, if a Property, and all it reaches
Reachable == IF heap[root].type = "Property" THEN {root} \cup Descendants(root) ELSE {}

ResultKeywords == {result[j].keyword : j \in 1..Len(result)}

\* breadth-first order by a queue: take the head, append its dependencies
\* not met before, each once, in declaration order
RECURSIVE Fresh(_, _)
Fresh(deps, met) ==
    IF deps = <<>> THEN <<>>
    ELSE IF Head(deps) \in met THEN Fresh(Tail(deps), met)
    ELSE <<Head(deps)>> \o Fresh(Tail(deps), met \cup {Head(deps)})

RECURSIVE BreadthFirst(_, _)
BreadthFirst(queue, met) ==
    IF queue = <<>> THEN <<>>
    ELSE LET new == Fresh(heap[Head(queue)].dependencies, met)
         IN  <<Head(queue)>> \o
             BreadthFirst(Tail(queue) \o new, met \cup {new[j] : j \in 1..Len(new)})

VisitOrder == IF heap[root].type = "Property" THEN BreadthFirst(<<root>>, {root}) ELSE <<>>

\* the first node of the visit order that holds the keyword
FirstNodeWith(keyword) ==
    LET at == {b \in 1..Len(VisitOrder) : keyword \in NodeKeywords(VisitOrder[b])}
    IN  CHOOSE b \in at : \A c \in at : b <= c

\* the places of the keyword in object r, and the first of them
PlacesOf(r, keyword) == {pl \in KeywordPlaces(r) : KeywordAt(r, pl) = keyword}

PlaceLess(p, q) ==
    \/ p[1] < q[1]
    \/ p[1] = q[1] /\ p[2] < q[2]
    \/ p[1] = q[1] /\ p[2] = q[2] /\ p[3] < q[3]

FirstPlace(r, keyword) ==
    CHOOSE pl \in PlacesOf(r, keyword) :
        \A q \in PlacesOf(r, keyword) : q = pl \/ PlaceLess(pl, q)

\* first discovery of keyword k comes before that of keyword l
DiscoveredBefore(k, l) ==
    \/ FirstNodeWith(k) < FirstNodeWith(l)
    \/ /\ FirstNodeWith(k) = FirstNodeWith(l)
       /\ PlaceLess(FirstPlace(VisitOrder[FirstNodeWith(k)], k),
                    FirstPlace(VisitOrder[FirstNodeWith(l)], l))

\* C3: getKeywords returns, on every graph (cyclic ones, self-loops and
\* shared nodes included), and what it returns holds exactly the keywords of
\* the nodes reachable from the snippet, each once.
C3_TerminatesWithUnion ==
    /\ <>(pc = "returned")
    /\ [](pc = "returned" =>
            /\ ResultKeywords = UNION {NodeKeywords(r) : r \in Reachable}
            /\ \A kw \in UNION {NodeKeywords(r) : r \in Reachable} :
                  Cardinality({j \in 1..Len(result) : result[j].keyword = kw}) = 1)

\* returned from a graph in which the root and another node depend on each
\* other, with keywords of both in the result
C3_Witness ==
    /\ pc = "returned"
    /\ \E r \in Refs \ {root} : r \in Descendants(root) /\ root \in Descendants(r)
    /\ Cardinality(ResultKeywords) >= 3

\* C5: the index of every returned entry is the lowest alternative holding
\* the keyword in the first node, in breadth-first order, that holds it.
C5_IndexOfFirstDiscovery ==
    pc = "returned" =>
        \A j \in 1..Len(result) :
            LET kw == result[j].keyword
                node == VisitOrder[FirstNodeWith(kw)]
                alts == {pl[1] : pl \in PlacesOf(node, kw)}
            IN  /\ kw \in UNION {NodeKeywords(r) : r \in Reachable}
                /\ result[j].index \in alts
                /\ \A a \in alts : result[j].index <= a

\* returned with an entry whose keyword is first met in a dependency, in an
\* alternative other than the first, and is also held by a later alternative
C5_Witness ==
    /\ pc = "returned"
    /\ \E j \in 1..Len(result) :
          /\ FirstNodeWith(result[j].keyword) > 1
          /\ result[j].index > 0
          /\ \E pl \in PlacesOf(VisitOrder[FirstNodeWith(result[j].keyword)],
                               result[j].keyword) : pl[1] > result[j].index

\* C6: no two entries of the result carry the same keyword.
C6_NoDuplicateKeyword ==
    \A j, k \in 1..Len(result) : result[j].keyword = result[k].keyword => j = k

\* returned after meeting a keyword of the result in two alternatives of one
\* node, twice in one alternative, and in two nodes
C6_Witness ==
    /\ pc = "returned"
    /\ \E r \in Reachable : \E p, q \in KeywordPlaces(r) :
          p[1] # q[1] /\ KeywordAt(r, p) = KeywordAt(r, q)
    /\ \E r \in Reachable : \E p, q \in KeywordPlaces(r) :
          p[1] = q[1] /\ p # q /\ KeywordAt(r, p) = KeywordAt(r, q)
    /\ \E r, q \in Reachable : r # q /\ NodeKeywords(r) \cap NodeKeywords(q) # {}

\* C7: no node is in the worklist twice; at the return the worklist is the
\* breadth-first order, and the entries stand in the order in which their
\* keywords are first met along it (alternative by alternative, left to
\* right).
C7_BreadthFirstOrder ==
    /\ \A j, k \in 1..Len(kwStack) : kwStack[j] = kwStack[k] => j = k
    /\ pc = "returned" =>
          /\ kwStack = VisitOrder
          /\ \A j, k \in 1..Len(result) :
                j < k => DiscoveredBefore(result[j].keyword, result[k].keyword)

\* returned from a root with two dependencies that were listed in the order
\* opposite to their identities and more than once
C7_Witness ==
    /\ pc = "returned"
    /\ Len(kwStack) >= 3
    /\ Len(heap[root].dependencies) >= 3
    /\ kwStack[2] > kwStack[3]
    /\ Len(result) >= 3

\* The pattern as the specification words it: an identifier of lowercase
\* letters and hyphens, alone or followed by a colon and a payload that is not
\* empty and holds no line break (white space around the colon belongs to
\* neither part).
IsIdentifier(s) == s # <<>> /\ \A j \in 1..Len(s) : IsIdentChar(s[j])

IsPayload(s) == s # <<>> /\ \A j \in 1..Len(s) : s[j] \notin {10, 13}

IsBlank(s) == \A j \in 1..Len(s) : IsWhite(s[j])

PatternIdentifiers(s) ==
    {id \in {Take(s, n) : n \in 1..Len(s)} :
        /\ IsIdentifier(id)
        /\ \/ id = s
           \/ \E a \in Len(id)..(Len(s) - 1) : \E b \in (a + 1)..(Len(s) - 1) :
                /\ IsBlank(SubSeq(s, Len(id) + 1, a))
                /\ s[a + 1] = Colon
                /\ IsBlank(SubSeq(s, a + 2, b))
                /\ IsPayload(Drop(s, b))}

\* C2: whenever createSnippet has been left, it was not left by an exception
\* of the Builder's own; a definition matching the pattern (whose value the
\* parser accepted) gave a Property snippet with that identifier as property
\* and no dependencies; any other definition gave a Raw snippet holding the
\* definition verbatim.
C2_BuilderClassifies ==
    pc = "built" =>
        /\ error # "TypeError"
        /\ (PatternIdentifiers(definition) # {} /\ error # "ParserError") =>
              /\ created.type = "Property"
              /\ created.property \in PatternIdentifiers(definition)
              /\ created.dependencies = <<>>
        /\ PatternIdentifiers(definition) = {} =>
              /\ error = "none"
              /\ created = [type |-> "Raw", key |-> key, value |-> definition]

(***************************************************************************)
(* The three operations together                                            *)
(***************************************************************************)

Init == BuildInit \/ NestInit \/ KwInit

Next == BuildNext \/ NestNext \/ KwNext

Spec == Init /\ [][Next]_vars

====
